---- MODULE Spec2Model ----
(***************************************************************************)
(* Model of udplogreceiver.py: a UDP listener (UdpHandler) that drains the *)
(* pending datagrams of a socket, decodes each with convert_datagram and   *)
(* hands the batch to LogRecordModel.add_records, which extends the record *)
(* list between beginInsertRows/endInsertRows and emits stats_changed.  A  *)
(* QSortFilterProxyModel on column 3 (msg) is driven by a QLineEdit.       *)
(*                                                                         *)
(* Bytes are naturals 0..255, strings are sequences of character codes.    *)
(***************************************************************************)
EXTENDS Integers, Sequences, FiniteSets

VARIABLES
    socket,         \* QUdpSocket: queue of pending datagrams (kernel side)
    pc,             \* "idle" (event loop) or "draining" (inside readDatagrams' while loop)
    datagrams,      \* readDatagrams' local list
    records,        \* LogRecordModel.records
    proxy,          \* QSortFilterProxyModel: source rows (0-based) it shows, in order
    pattern,        \* the proxy's fixed filter string (msg_filter's text)
    status_label,   \* status_label's text: last stats_changed payload, <<>> before any
    alive,          \* FALSE once an uncaught exception in the slot has aborted the process
    lastError,      \* name of the exception the last readDatagrams raised, "none" otherwise
    emitted,        \* history: payloads of every stats_changed emission, oldest first
    observed,       \* history: the signals delivered during the running/last readDatagrams
    calls,          \* history: the argument of every add_records call, oldest first
    invokeCalls,    \* history: the add_records calls of the running/last readDatagrams
    storeAtInvoke,  \* history: self.records when the running/last readDatagrams began
    pendingAtInvoke,\* history: socket contents when the running/last readDatagrams began
    arrivedDuring,  \* history: datagrams queued while that invocation's loop was running
    lastDrained,    \* history: the datagrams list of the last finished readDatagrams
    arrivals,       \* number of datagrams that reached the socket so far
    arrived,        \* history: every datagram that reached the socket, oldest first
    readLog,        \* history: every datagram readDatagram returned, oldest first
    origins,        \* history: for each stored row, the position in readLog it came from
    drains,         \* number of readDatagrams invocations so far
    chunk,          \* decoder harness: the buffer under test
    decoded,        \* decoder harness: convert_datagram's outcome for chunk
    lastRead        \* the last call of a read accessor of the model and what it gave

vars == <<socket, pc, datagrams, records, proxy, pattern, status_label, alive,
          lastError, emitted, observed, calls, invokeCalls, storeAtInvoke,
          pendingAtInvoke, arrivedDuring, lastDrained, arrivals, arrived, readLog,
          origins, drains, chunk, decoded, lastRead>>

(***************************************************************************)
(* Bounds of the model.                                                    *)
(***************************************************************************)
MaxArrivals == 3
MaxDrains == 3

(***************************************************************************)
(* Generic sequence helpers.                                               *)
(***************************************************************************)
Range(s) == {s[i] : i \in 1..Len(s)}

IsPrefix(s, t) == Len(s) <= Len(t) /\ SubSeq(t, 1, Len(s)) = s

RECURSIVE Flatten(_)
Flatten(ss) == IF ss = <<>> THEN <<>> ELSE Head(ss) \o Flatten(Tail(ss))

\* Python's `p in s` for strings: p occurs in s as a contiguous run
Contains(s, p) ==
    \E i \in 0..Len(s) : i + Len(p) <= Len(s) /\ SubSeq(s, i + 1, i + Len(p)) = p

RECURSIVE ToDigits(_)
\* str(n) for a natural n, as the sequence of its decimal digit characters
ToDigits(n) == IF n < 10 THEN <<48 + n>> ELSE ToDigits(n \div 10) \o <<48 + (n % 10)>>

(***************************************************************************)
(* The wire format and pickle.  A datagram is a 4-byte big-endian length   *)
(* followed by a pickle.  pickle is the standard library's; it is modelled *)
(* by a small opcode stream with the properties of the real one that the   *)
(* decoder depends on: a stream ends at its STOP opcode (bytes after it    *)
(* are not read), a stream cut short or starting with an unknown opcode    *)
(* does not load, strings carry their own length, and the loaded object    *)
(* need not be a dict.                                                     *)
(*   dict stream: DICT created levelname name len(msg) msg... STOP         *)
(*   int stream:  BININT1 value STOP                                       *)
(***************************************************************************)
OpDict == 125
OpBinInt1 == 75
OpStop == 46

NoRecord == [created |-> 0, levelname |-> 0, name |-> 0, msg |-> <<>>]

Raise(exc) == [ok |-> FALSE, error |-> exc, record |-> NoRecord]
Return(rec) == [ok |-> TRUE, error |-> "none", record |-> rec]

\* struct.unpack('>L', b)[0] for a 4-byte b
unpack_L_little(b) == b[4] * 16777216 + b[3] * 65536 + b[2] * 256 + b[1]
unpack_L(b) == b[1] * 16777216 + b[2] * 65536 + b[3] * 256 + b[4]

\* pickle.loads(p): [ok, kind, value]
pickle_loads(p) ==
    IF Len(p) = 0 THEN [ok |-> FALSE, kind |-> "EOFError", value |-> NoRecord]
    ELSE IF p[1] = OpDict
              /\ Len(p) >= 5
              /\ Len(p) >= 5 + p[5] + 1
              /\ p[5 + p[5] + 1] = OpStop
         THEN [ok |-> TRUE, kind |-> "dict",
               value |-> [created |-> p[2], levelname |-> p[3], name |-> p[4],
                          msg |-> SubSeq(p, 6, 5 + p[5])]]
    ELSE IF p[1] = OpBinInt1 /\ Len(p) >= 3 /\ p[3] = OpStop
         THEN [ok |-> TRUE, kind |-> "int", value |-> NoRecord]
    ELSE [ok |-> FALSE, kind |-> "UnpicklingError", value |-> NoRecord]

\* logging.makeLogRecord(obj): rv.__dict__.update(obj) needs a mapping
makeLogRecord(obj) ==
    IF obj.kind = "dict" THEN Return(obj.value) ELSE Raise("TypeError")

\* convert_datagram with the length assertion loosened to "at least"
convert_datagram_lenient(buf) ==
    IF Len(buf) < 4 THEN Raise("struct.error")
    ELSE LET slen == unpack_L(SubSeq(buf, 1, 4))
             rest == SubSeq(buf, 5, Len(buf))
         IN  IF slen > Len(rest) THEN Raise("AssertionError")
             ELSE LET obj == pickle_loads(rest)
                  IN  IF ~obj.ok THEN Raise(obj.kind) ELSE makeLogRecord(obj)

\* convert_datagram(chunk): the record, or the exception it raises
convert_datagram(buf) ==
    IF Len(buf) < 4 THEN Raise("struct.error")
    ELSE LET slen == unpack_L(SubSeq(buf, 1, 4))
             rest == SubSeq(buf, 5, Len(buf))
         IN  IF slen # Len(rest) THEN Raise("AssertionError")
             ELSE LET obj == pickle_loads(rest)
                  IN  IF ~obj.ok THEN Raise(obj.kind) ELSE makeLogRecord(obj)

(***************************************************************************)
(* The sender's side of the wire format (logging's DatagramHandler): the   *)
(* pickle of the record's field mapping behind its 4-byte big-endian       *)
(* length.                                                                 *)
(***************************************************************************)
pickle_dumps(rec) ==
    <<OpDict, rec.created, rec.levelname, rec.name, Len(rec.msg)>> \o rec.msg \o <<OpStop>>

pack_L(n) == <<(n \div 16777216) % 256, (n \div 65536) % 256, (n \div 256) % 256, n % 256>>

makePickle(rec) == LET p == pickle_dumps(rec) IN pack_L(Len(p)) \o p

(***************************************************************************)
(* LogRecordModel: the read side.                                          *)
(***************************************************************************)
cols == <<"created", "levelname", "name", "msg">>

\* two decimal digits, zero padded (strftime's %m %d %H %M %S)
Pad2(n) == <<48 + ((n \div 10) % 10), 48 + (n % 10)>>

\* four decimal digits (strftime's %Y for the years 1000..9999)
Pad4(n) == Pad2(n \div 100) \o Pad2(n % 100)

\* time.strftime('%Y-%m-%d %H:%M:%S', time.gmtime(t)) for t >= 0 seconds
conv_time(t) ==
    LET days == t \div 86400
        secs == t % 86400
        z    == days + 719468
        era  == z \div 146097
        doe  == z - era * 146097
        yoe  == (doe - doe \div 1460 + doe \div 36524 - doe \div 146096) \div 365
        doy  == doe - (365 * yoe + yoe \div 4 - yoe \div 100)
        mp   == (5 * doy + 2) \div 153
        d    == doy - (153 * mp + 2) \div 5 + 1
        m    == IF mp < 10 THEN mp + 3 ELSE mp - 9
        y    == yoe + era * 400 + (IF m <= 2 THEN 1 ELSE 0)
    IN  Pad4(y) \o <<45>> \o Pad2(m) \o <<45>> \o Pad2(d) \o <<32>>
        \o Pad2(secs \div 3600) \o <<58>> \o Pad2((secs % 3600) \div 60)
        \o <<58>> \o Pad2(secs % 60)

\* data(index, Qt.DisplayRole) for a valid index (row, col), both 0-based
data(recs, row, col) ==
    LET record == recs[row + 1]
        attr == cols[col + 1]
    IN  CASE attr = "created" -> conv_time(record.created)
          [] attr = "levelname" -> ToDigits(record.levelname)
          [] attr = "name" -> ToDigits(record.name)
          [] attr = "msg" -> record.msg

rowCount(recs) == Len(recs)

columnCount == Len(cols)

\* what a read accessor gives: a text, a number, a column name, None or an exception
Result(kind, text, count, name) ==
    [kind |-> kind, text |-> text, count |-> count, name |-> name]

ResultNone == Result("None", <<>>, 0, "")
ResultIndexError == Result("IndexError", <<>>, 0, "")

\* QModelIndex(): the invalid index
InvalidIndex == [valid |-> FALSE, row |-> -1, col |-> -1]

\* createIndex(row, col) of this model; isValid() is row >= 0 and column >= 0
createIndex(row, col) == [valid |-> row >= 0 /\ col >= 0, row |-> row, col |-> col]

\* QAbstractTableModel.index(row, col): hasIndex() against rowCount and columnCount
index(recs, row, col) ==
    IF row >= 0 /\ row < rowCount(recs) /\ col >= 0 /\ col < columnCount
    THEN createIndex(row, col)
    ELSE InvalidIndex

\* Python's seq[i] on a list or tuple: negative i counts from the end
InRangePy(seq, i) == i < Len(seq) /\ i >= 0 - Len(seq)
GetItemPy(seq, i) == IF i < 0 THEN seq[Len(seq) + i + 1] ELSE seq[i + 1]

\* data() without the isValid() test
data_role_unchecked(recs, idx, role) ==
    IF ~InRangePy(recs, idx.row) \/ ~InRangePy(cols, idx.col) THEN ResultIndexError
    ELSE IF role = "DisplayRole"
         THEN LET row == IF idx.row < 0 THEN Len(recs) + idx.row ELSE idx.row
                  col == IF idx.col < 0 THEN Len(cols) + idx.col ELSE idx.col
              IN  Result("value", data(recs, row, col), 0, "")
         ELSE ResultNone

\* data(index, role): None unless the index is valid and the role is DisplayRole
data_role(recs, idx, role) ==
    IF idx.valid
    THEN IF ~InRangePy(recs, idx.row) \/ ~InRangePy(cols, idx.col) THEN ResultIndexError
         ELSE IF role = "DisplayRole"
              THEN Result("value", data(recs, idx.row, idx.col), 0, "")
              ELSE ResultNone
    ELSE ResultNone

\* a data() that writes the created timestamp back, rounded down to the minute
records_after_data_rounding(recs, idx, role) ==
    IF idx.valid /\ InRangePy(recs, idx.row)
    THEN [recs EXCEPT ![idx.row + 1].created = @ - (@ % 60)]
    ELSE recs

\* self.records after data(index, role): data only reads record and cols
records_after_data(recs, idx, role) == recs

\* headerData(section, orientation, role)
headerData(section, orientation, role) ==
    IF orientation = "Horizontal" /\ role = "DisplayRole"
    THEN IF InRangePy(cols, section) THEN Result("value", <<>>, 0, GetItemPy(cols, section))
         ELSE ResultIndexError
    ELSE ResultNone

(***************************************************************************)
(* QSortFilterProxyModel over the model, filterKeyColumn 3, fixed-string   *)
(* filter, case sensitive (Qt's default), no sorting: it shows the         *)
(* accepted source rows in source order.                                   *)
(***************************************************************************)
FilterKeyColumn == 3

Lower(c) == IF c >= 65 /\ c <= 90 THEN c + 32 ELSE c
LowerStr(s) == [i \in 1..Len(s) |-> Lower(s[i])]

\* the proxy with filterCaseSensitivity set to Qt.CaseInsensitive
filterAcceptsRow_nocase(recs, pat, row) ==
    pat = <<>> \/ Contains(LowerStr(data(recs, row, FilterKeyColumn)), LowerStr(pat))

\* QSortFilterProxyModel.filterAcceptsRow(source_row)
filterAcceptsRow(recs, pat, row) ==
    pat = <<>> \/ Contains(data(recs, row, FilterKeyColumn), pat)

RECURSIVE AcceptedRows(_, _, _, _)
\* the source rows of first..last the filter accepts, ascending
AcceptedRows(recs, pat, first, last) ==
    IF first > last THEN <<>>
    ELSE (IF filterAcceptsRow(recs, pat, first) THEN <<first>> ELSE <<>>)
         \o AcceptedRows(recs, pat, first + 1, last)

\* setFilterFixedString(pat): the filter is invalidated and every source row re-filtered
setFilterFixedString(recs, pat) == AcceptedRows(recs, pat, 0, rowCount(recs) - 1)

\* a model that extends its list without beginInsertRows/endInsertRows
noRowsInserted(prox, recs, pat, first, last) == prox

\* the proxy's handling of the source's rowsInserted(first, last): rows at or
\* after `first` move down, the accepted new rows are mapped in between
rowsInserted(prox, recs, pat, first, last) ==
    LET n == last - first + 1
        Before(r) == r < first
        After(r) == r >= first
        moved == [i \in 1..Len(SelectSeq(prox, After)) |-> SelectSeq(prox, After)[i] + n]
    IN  SelectSeq(prox, Before) \o AcceptedRows(recs, pat, first, last) \o moved

(***************************************************************************)
(* LogRecordModel.add_records, piece by piece.                             *)
(***************************************************************************)
\* an early return that also takes a batch of one record
not_records_short(batch) == Len(batch) < 2

\* add_records without its early return
not_records_never(batch) == FALSE

\* `if not records: return`
not_records(batch) == batch = <<>>

\* a list that takes the new records at its front
extend_front(recs, batch) == batch \o recs

\* self.records.extend(records)
extend(recs, batch) == recs \o batch

\* the label text built from the size of the batch, len(records)
stats_text_batch(before, after) ==
    ToDigits(Len(after) - Len(before)) \o <<32, 114, 101, 99, 111, 114, 100, 115>>

\* the label text built from the row count before the append
stats_text_stale(before, after) == ToDigits(Len(before)) \o <<32, 114, 101, 99, 111, 114, 100, 115>>

\* '{} records'.format(len(self.records)), evaluated after the extend
stats_text(before, after) == ToDigits(Len(after)) \o <<32, 114, 101, 99, 111, 114, 100, 115>>

RECURSIVE insert_signals_rowwise(_, _)
\* one beginInsertRows/append/endInsertRows per record
insert_signals_rowwise(recs, batch) ==
    IF batch = <<>> THEN <<>>
    ELSE <<[signal |-> "rowsAboutToBeInserted", rowCount |-> Len(recs)],
           [signal |-> "rowsInserted", rowCount |-> Len(recs) + 1]>>
         \o insert_signals_rowwise(Append(recs, Head(batch)), Tail(batch))

\* the model signals of beginInsertRows ... extend ... endInsertRows, each with
\* the rowCount() a receiver reads while it is delivered
insert_signals(recs, batch) ==
    <<[signal |-> "rowsAboutToBeInserted", rowCount |-> rowCount(recs)],
      [signal |-> "rowsInserted", rowCount |-> rowCount(extend(recs, batch))]>>

RECURSIVE add_records_each(_, _, _, _)
\* one insertion and one stats_changed per record of the batch
add_records_each(recs, prox, pat, batch) ==
    IF batch = <<>>
    THEN [records |-> recs, proxy |-> prox, emit |-> <<>>, observed |-> <<>>]
    ELSE LET after == extend(recs, <<Head(batch)>>)
             rest == add_records_each(after,
                                      rowsInserted(prox, after, pat, Len(recs), Len(recs)),
                                      pat, Tail(batch))
         IN  [records |-> rest.records,
              proxy |-> rest.proxy,
              emit |-> <<stats_text(recs, after)>> \o rest.emit,
              observed |-> insert_signals(recs, <<Head(batch)>>)
                           \o <<[signal |-> "stats_changed", rowCount |-> rowCount(after)]>>
                           \o rest.observed]

\* add_records(records): the new list, the proxy's new mapping, the texts
\* emitted on stats_changed and what the receivers of each signal saw
add_records(recs, prox, pat, batch) ==
    IF not_records(batch)
    THEN [records |-> recs, proxy |-> prox, emit |-> <<>>, observed |-> <<>>]
    ELSE LET pos == Len(recs)
             after == extend(recs, batch)
         IN  [records |-> after,
              proxy |-> rowsInserted(prox, after, pat, pos, pos + Len(batch) - 1),
              emit |-> <<stats_text(recs, after)>>,
              observed |-> insert_signals(recs, batch)
                           \o <<[signal |-> "stats_changed", rowCount |-> rowCount(after)]>>]

(***************************************************************************)
(* The datagrams that reach the socket, and the filter texts typed.        *)
(***************************************************************************)
Rec1 == [created |-> 0, levelname |-> 20, name |-> 1, msg |-> <<97>>]
Rec2 == [created |-> 5, levelname |-> 40, name |-> 1, msg |-> <<65, 98>>]

Good1 == makePickle(Rec1)
Good2 == makePickle(Rec2)
BadLen == pack_L(Len(pickle_dumps(Rec1)) + 1) \o pickle_dumps(Rec1)
Short == <<0, 0>>
BadPickle == pack_L(2) \o <<7, 7>>

Datagrams == {Good1, Good2, BadLen, Short, BadPickle}

Patterns == {<<>>, <<97>>, <<98>>}

(***************************************************************************)
(* UdpHandler.readDatagrams.  The kernel queues datagrams at any time, so  *)
(* the while loop is taken one iteration at a time; everything after the   *)
(* loop runs on the GUI thread without interruption.                       *)
(***************************************************************************)
\* `if` in place of `while`: one datagram per invocation
loop_condition_once(sock, dgs) == sock # <<>> /\ dgs = <<>>

\* while self._socket.hasPendingDatagrams()
loop_condition(sock, dgs) == sock # <<>>

\* a read that returns the oldest datagram and leaves it pending
readDatagram_peek(sock) == [datagram |-> Head(sock), rest |-> sock]

\* a read that takes the newest pending datagram
readDatagram_newest(sock) ==
    [datagram |-> sock[Len(sock)], rest |-> SubSeq(sock, 1, Len(sock) - 1)]

\* self._socket.readDatagram(datagram_size): the oldest pending datagram, whole
readDatagram(sock) == [datagram |-> Head(sock), rest |-> Tail(sock)]

\* [convert_datagram(datagram) for datagram in datagrams]
converted(dgs) == [i \in 1..Len(dgs) |-> convert_datagram(dgs[i])]

\* a check that stops at the first datagram
AllConverted_first(dgs) == IF dgs = <<>> THEN TRUE ELSE converted(dgs)[1].ok

\* the comprehension ran to its end: no conversion raised
AllConverted(dgs) == \A i \in 1..Len(dgs) : converted(dgs)[i].ok

\* the exception the comprehension raises: that of the first datagram that fails
FirstError(dgs) ==
    LET i == CHOOSE k \in 1..Len(dgs) :
                 ~converted(dgs)[k].ok /\ \A j \in 1..(k - 1) : converted(dgs)[j].ok
    IN  converted(dgs)[i].error

NotRun == [ok |-> FALSE, error |-> "not run", record |-> NoRecord]

NoRead == [op |-> "none", row |-> 0, col |-> 0, role |-> "none", valid |-> FALSE,
           result |-> ResultNone]

Init ==
    /\ socket = <<>>
    /\ pc = "idle"
    /\ datagrams = <<>>
    /\ records = <<>>
    /\ proxy = <<>>
    /\ pattern = <<>>
    /\ status_label = <<>>
    /\ alive = TRUE
    /\ lastError = "none"
    /\ emitted = <<>>
    /\ observed = <<>>
    /\ calls = <<>>
    /\ invokeCalls = <<>>
    /\ storeAtInvoke = <<>>
    /\ pendingAtInvoke = <<>>
    /\ arrivedDuring = <<>>
    /\ lastDrained = <<>>
    /\ arrivals = 0
    /\ arrived = <<>>
    /\ readLog = <<>>
    /\ origins = <<>>
    /\ lastRead = NoRead
    /\ drains = 0
    /\ chunk = <<>>
    /\ decoded = NotRun

\* the kernel queues a datagram on the bound socket
Arrive(d) ==
    /\ alive
    /\ arrivals < MaxArrivals
    /\ socket' = Append(socket, d)
    /\ arrivals' = arrivals + 1
    /\ arrived' = Append(arrived, d)
    /\ arrivedDuring' = IF pc = "draining" THEN Append(arrivedDuring, d) ELSE arrivedDuring
    /\ UNCHANGED <<pc, datagrams, records, proxy, pattern, status_label, alive, lastError,
                   emitted, observed, calls, invokeCalls, storeAtInvoke, pendingAtInvoke,
                   lastDrained, readLog, origins, drains, chunk, decoded, lastRead>>

\* the slot starts: datagrams = []
readDatagrams_enter ==
    /\ alive
    /\ pc = "idle"
    /\ pc' = "draining"
    /\ datagrams' = <<>>
    /\ drains' = drains + 1
    /\ pendingAtInvoke' = socket
    /\ arrivedDuring' = <<>>
    /\ lastError' = "none"
    /\ observed' = <<>>
    /\ invokeCalls' = <<>>
    /\ storeAtInvoke' = records
    /\ UNCHANGED <<socket, records, proxy, pattern, status_label, alive, emitted,
                   calls, lastDrained, arrivals, arrived, readLog, origins, chunk, decoded, lastRead>>

\* readyRead fires, with or without a datagram pending, and the slot starts
ReadyRead ==
    /\ drains < MaxDrains
    /\ readDatagrams_enter

\* readyRead fires because a datagram is pending, and the slot starts
ReadyReadPending ==
    /\ socket # <<>>
    /\ readDatagrams_enter

\* one iteration of the while loop: readDatagram(pendingDatagramSize())
ReadOne ==
    /\ pc = "draining"
    /\ loop_condition(socket, datagrams)
    /\ datagrams' = Append(datagrams, readDatagram(socket).datagram)
    /\ socket' = readDatagram(socket).rest
    /\ readLog' = Append(readLog, readDatagram(socket).datagram)
    /\ UNCHANGED <<pc, records, proxy, pattern, status_label, alive, lastError, emitted,
                   observed, calls, invokeCalls, storeAtInvoke, pendingAtInvoke,
                   arrivedDuring, lastDrained, arrivals, arrived, origins, drains,
                   chunk, decoded, lastRead>>

\* the loop ends, every datagram converts, add_records(records) runs
ConvertAndAdd ==
    /\ pc = "draining"
    /\ ~loop_condition(socket, datagrams)
    /\ AllConverted(datagrams)
    /\ LET batch == [i \in 1..Len(datagrams) |-> converted(datagrams)[i].record]
           r == add_records(records, proxy, pattern, batch)
       IN  /\ records' = r.records
           /\ proxy' = r.proxy
           /\ emitted' = emitted \o r.emit
           /\ status_label' = IF r.emit = <<>> THEN status_label ELSE r.emit[Len(r.emit)]
           /\ observed' = r.observed
           /\ calls' = Append(calls, batch)
           /\ invokeCalls' = Append(invokeCalls, batch)
           /\ origins' = IF r.records = records THEN origins
                         ELSE origins \o [j \in 1..Len(datagrams) |->
                                             Len(readLog) - Len(datagrams) + j]
    /\ lastDrained' = datagrams
    /\ datagrams' = <<>>
    /\ pc' = "idle"
    /\ UNCHANGED <<socket, pattern, alive, lastError, storeAtInvoke, pendingAtInvoke,
                   arrivedDuring, arrivals, arrived, readLog, drains, chunk, decoded, lastRead>>

\* the loop ends and a conversion raises: the exception leaves the slot before
\* add_records; PyQt then either prints the traceback and goes on (PyQt4,
\* PyQt5 before 5.5) or aborts the process (PyQt5 from 5.5 on)
ConvertRaises ==
    /\ pc = "draining"
    /\ ~loop_condition(socket, datagrams)
    /\ ~AllConverted(datagrams)
    /\ lastError' = FirstError(datagrams)
    /\ \E aborts \in BOOLEAN : alive' = ~aborts
    /\ lastDrained' = datagrams
    /\ datagrams' = <<>>
    /\ pc' = "idle"
    /\ UNCHANGED <<socket, records, proxy, pattern, status_label, emitted, observed,
                   calls, invokeCalls, storeAtInvoke, pendingAtInvoke, arrivedDuring,
                   arrivals, arrived, readLog, origins, drains, chunk, decoded, lastRead>>

\* msg_filter.textChanged(p) -> filter_model.setFilterFixedString(p)
SetFilter(p) ==
    /\ alive
    /\ pc = "idle"
    /\ p # pattern
    /\ pattern' = p
    /\ proxy' = setFilterFixedString(records, p)
    /\ UNCHANGED <<socket, pc, datagrams, records, status_label, alive, lastError,
                   emitted, observed, calls, invokeCalls, storeAtInvoke, pendingAtInvoke,
                   arrivedDuring, lastDrained, arrivals, arrived, readLog, origins,
                   drains, chunk, decoded, lastRead>>

Next ==
    \/ \E d \in Datagrams : Arrive(d)
    \/ ReadyRead
    \/ ReadOne
    \/ ConvertAndAdd
    \/ ConvertRaises
    \/ \E p \in Patterns : SetFilter(p)

Spec == Init /\ [][Next]_vars

(***************************************************************************)
(* The program under fair scheduling.  Qt emits readyRead while a datagram *)
(* is pending and control is in the event loop, and a slot that has        *)
(* started runs to its end: the loop, the conversions and add_records are  *)
(* straight-line Python on the one GUI thread.  Arrivals and filter edits  *)
(* are the environment's and carry no fairness.                            *)
(***************************************************************************)
\* what senders put on the wire here: two well-formed datagrams and a bad one
LiveDatagrams == {Good1, Good2, BadLen}

NextLive ==
    \/ \E d \in LiveDatagrams : Arrive(d)
    \/ ReadyReadPending
    \/ ReadOne
    \/ ConvertAndAdd
    \/ ConvertRaises
    \/ \E p \in Patterns : SetFilter(p)

SpecLive ==
    /\ Init
    /\ [][NextLive]_vars
    /\ WF_vars(ReadyReadPending)
    /\ WF_vars(ReadOne)
    /\ WF_vars(ConvertAndAdd)
    /\ WF_vars(ConvertRaises)

(***************************************************************************)
(* The decoder on its own: convert_datagram applied to one buffer, drawn   *)
(* from prefixes of up to four bytes followed by whole, cut-short and      *)
(* over-long pickles.                                                      *)
(***************************************************************************)
MaxTrail == 1

Trails == {[i \in 1..n |-> 0] : n \in 0..MaxTrail}

Pickles == {pickle_dumps(Rec1), pickle_dumps(Rec2), <<OpBinInt1, 1, OpStop>>}

\* every pickle, whole or cut after k bytes, with the trailing bytes appended
Payloads ==
    UNION {{SubSeq(p, 1, k) \o t : k \in 0..Len(p), t \in Trails} : p \in Pickles}

Prefixes ==
    {<<a, b, c, d>> : a \in {0, 1}, b \in {0, 1}, c \in {0, 1}, d \in 0..(Len(pickle_dumps(Rec2)) + MaxTrail)}
    \cup {<<>>, <<0>>, <<0, 0>>, <<0, 0, 0>>, <<0, 0, 7>>, <<7>>}

Buffers == {pre \o pay : pre \in Prefixes, pay \in Payloads}

\* records a sender logs, and the datagrams it sends for them
SentRecords ==
    [created : {0, 5}, levelname : {20, 40}, name : {1, 2},
     msg : {<<>>, <<97>>, <<65, 98>>}]

Frames == {makePickle(r) : r \in SentRecords}

InitDecode ==
    /\ chunk \in Buffers \cup Frames
    /\ decoded = NotRun
    /\ socket = <<>>
    /\ pc = "idle"
    /\ datagrams = <<>>
    /\ records = <<>>
    /\ proxy = <<>>
    /\ pattern = <<>>
    /\ status_label = <<>>
    /\ alive = TRUE
    /\ lastError = "none"
    /\ emitted = <<>>
    /\ observed = <<>>
    /\ calls = <<>>
    /\ invokeCalls = <<>>
    /\ storeAtInvoke = <<>>
    /\ pendingAtInvoke = <<>>
    /\ arrivedDuring = <<>>
    /\ lastDrained = <<>>
    /\ arrivals = 0
    /\ arrived = <<>>
    /\ readLog = <<>>
    /\ origins = <<>>
    /\ lastRead = NoRead
    /\ drains = 0

\* record = convert_datagram(chunk)
Decode ==
    /\ decoded = NotRun
    /\ decoded' = convert_datagram(chunk)
    /\ UNCHANGED <<socket, pc, datagrams, records, proxy, pattern, status_label, alive,
                   lastError, emitted, observed, calls, invokeCalls, storeAtInvoke,
                   pendingAtInvoke, arrivedDuring, lastDrained, arrivals, arrived,
                   readLog, origins, drains, chunk, lastRead>>

NextDecode == Decode

SpecDecode == InitDecode /\ [][NextDecode]_vars

(***************************************************************************)
(* The read side on its own: the store as one readDatagrams left it after  *)
(* draining the datagrams of up to MaxRows sent records, then any sequence *)
(* of reads through the model's accessors and of filter changes.           *)
(***************************************************************************)
MaxRows == 2

Stores == UNION {[1..n -> {Rec1, Rec2}] : n \in 0..MaxRows}

Rows == -1..(MaxRows + 1)
Columns == -1..(columnCount + 1)
Sections == (0 - columnCount - 1)..(columnCount + 1)
Roles == {"DisplayRole", "EditRole"}
Orientations == {"Horizontal", "Vertical"}

InitRead ==
    /\ records \in Stores
    /\ LET sent == [i \in 1..Len(records) |-> makePickle(records[i])]
           r == add_records(<<>>, <<>>, <<>>, records)
       IN  /\ proxy = r.proxy
           /\ emitted = r.emit
           /\ status_label = IF r.emit = <<>> THEN <<>> ELSE r.emit[1]
           /\ observed = r.observed
           /\ calls = <<records>>
           /\ invokeCalls = <<records>>
           /\ arrived = sent
           /\ readLog = sent
           /\ lastDrained = sent
           /\ pendingAtInvoke = sent
           /\ origins = [i \in 1..Len(records) |-> i]
    /\ arrivals = Len(records)
    /\ drains = 1
    /\ storeAtInvoke = <<>>
    /\ arrivedDuring = <<>>
    /\ socket = <<>>
    /\ pc = "idle"
    /\ datagrams = <<>>
    /\ pattern = <<>>
    /\ alive = TRUE
    /\ lastError = "none"
    /\ chunk = <<>>
    /\ decoded = NotRun
    /\ lastRead = NoRead

\* a view or the proxy calls data(); the index comes from index(row, col), or
\* is built with createIndex(row, col) as a stale index is
ReadData(row, col, role, fresh) ==
    /\ alive
    /\ pc = "idle"
    /\ LET idx == IF fresh THEN index(records, row, col) ELSE createIndex(row, col)
       IN  /\ lastRead' = [op |-> "data", row |-> row, col |-> col, role |-> role,
                           valid |-> idx.valid, result |-> data_role(records, idx, role)]
           /\ records' = records_after_data(records, idx, role)
    /\ UNCHANGED <<socket, pc, datagrams, proxy, pattern, status_label, alive, lastError,
                   emitted, observed, calls, invokeCalls, storeAtInvoke, pendingAtInvoke,
                   arrivedDuring, lastDrained, arrivals, arrived, readLog, origins,
                   drains, chunk, decoded>>

\* a header view calls headerData()
ReadHeader(section, orientation, role) ==
    /\ alive
    /\ pc = "idle"
    /\ lastRead' = [op |-> "headerData", row |-> 0, col |-> section, role |-> role,
                    valid |-> FALSE, result |-> headerData(section, orientation, role)]
    /\ UNCHANGED <<socket, pc, datagrams, records, proxy, pattern, status_label, alive,
                   lastError, emitted, observed, calls, invokeCalls, storeAtInvoke,
                   pendingAtInvoke, arrivedDuring, lastDrained, arrivals, arrived,
                   readLog, origins, drains, chunk, decoded>>

\* rowCount(parent)
ReadRowCount ==
    /\ alive
    /\ pc = "idle"
    /\ lastRead' = [op |-> "rowCount", row |-> 0, col |-> 0, role |-> "none",
                    valid |-> FALSE, result |-> Result("value", <<>>, rowCount(records), "")]
    /\ UNCHANGED <<socket, pc, datagrams, records, proxy, pattern, status_label, alive,
                   lastError, emitted, observed, calls, invokeCalls, storeAtInvoke,
                   pendingAtInvoke, arrivedDuring, lastDrained, arrivals, arrived,
                   readLog, origins, drains, chunk, decoded>>

\* columnCount(parent)
ReadColumnCount ==
    /\ alive
    /\ pc = "idle"
    /\ lastRead' = [op |-> "columnCount", row |-> 0, col |-> 0, role |-> "none",
                    valid |-> FALSE, result |-> Result("value", <<>>, columnCount, "")]
    /\ UNCHANGED <<socket, pc, datagrams, records, proxy, pattern, status_label, alive,
                   lastError, emitted, observed, calls, invokeCalls, storeAtInvoke,
                   pendingAtInvoke, arrivedDuring, lastDrained, arrivals, arrived,
                   readLog, origins, drains, chunk, decoded>>

NextRead ==
    \/ \E row \in Rows, col \in Columns, role \in Roles, fresh \in BOOLEAN :
           ReadData(row, col, role, fresh)
    \/ \E section \in Sections, o \in Orientations, role \in Roles :
           ReadHeader(section, o, role)
    \/ ReadRowCount
    \/ ReadColumnCount
    \/ \E p \in Patterns : SetFilter(p)

SpecRead == InitRead /\ [][NextRead]_vars

(***************************************************************************)
(* Vocabulary of the properties.                                           *)
(***************************************************************************)
RECURSIVE WellFormedRecords(_)
\* the records of the datagrams of dgs that convert, in order
WellFormedRecords(dgs) ==
    IF dgs = <<>> THEN <<>>
    ELSE (IF convert_datagram(Head(dgs)).ok THEN <<convert_datagram(Head(dgs)).record>>
          ELSE <<>>) \o WellFormedRecords(Tail(dgs))

\* the running/last readDatagrams has returned to the event loop
Returned == pc = "idle" /\ drains > 0

\* msg of stored row r (0-based) holds p as a contiguous, case-sensitive run
Matches(recs, r, p) ==
    \E i \in 1..(Len(recs[r + 1].msg) + 1) :
        \A k \in 1..Len(p) :
            i + k - 1 <= Len(recs[r + 1].msg) /\ recs[r + 1].msg[i + k - 1] = p[k]

MatchingSet(recs, p) == {r \in 0..(Len(recs) - 1) : Matches(recs, r, p)}

\* prox lists exactly the matching rows of recs, each once, in store order
ShowsMatching(prox, recs, p) ==
    /\ Len(prox) = Cardinality(MatchingSet(recs, p))
    /\ Range(prox) = MatchingSet(recs, p)
    /\ \A i, j \in 1..Len(prox) : i < j => prox[i] < prox[j]

(***************************************************************************)
(* C1: of the datagrams drained by one readDatagrams invocation, the       *)
(* malformed ones are skipped and the store receives exactly the records   *)
(* of the well-formed ones, in arrival order.                              *)
(***************************************************************************)
C1_PartialBatchIsolation ==
    Returned => records = storeAtInvoke \o WellFormedRecords(lastDrained)

(***************************************************************************)
(* C2: an append of N records raises the row count by exactly N, and no    *)
(* receiver of a model signal (the proxy, the label) reads a row count     *)
(* strictly between the count before and the count after.                  *)
(***************************************************************************)
C2_BatchAtomicity ==
    (Returned /\ Len(invokeCalls) = 1) =>
        /\ Len(records) = Len(storeAtInvoke) + Len(invokeCalls[1])
        /\ \A i \in 1..Len(observed) :
               ~(Len(storeAtInvoke) < observed[i].rowCount
                 /\ observed[i].rowCount < Len(records))

C2_Witness ==
    /\ Returned
    /\ Len(invokeCalls) = 1
    /\ Len(invokeCalls[1]) >= 2
    /\ Len(observed) = 3
    /\ storeAtInvoke # <<>>

(***************************************************************************)
(* C3: the store is the concatenation, in call order, of the batches       *)
(* passed to add_records, and every step keeps the old contents as a       *)
(* prefix of the new.                                                      *)
(***************************************************************************)
C3_AppendOnly ==
    /\ [](records = Flatten(calls))
    /\ [][IsPrefix(records, records')]_vars

C3_Witness ==
    /\ Len(calls) >= 2
    /\ calls[1] # <<>>
    /\ calls[2] # <<>>
    /\ calls[1] # calls[2]
    /\ Len(records) >= 3

(***************************************************************************)
(* C4: a setFilter(p) leaves the proxy showing exactly the stored rows     *)
(* whose msg contains p (case-sensitive; the empty p matches all), in      *)
(* store order, and as many of them as there are.                          *)
(***************************************************************************)
C4_FilterCorrect ==
    [][pattern' # pattern => ShowsMatching(proxy', records', pattern')]_vars

C4_Witness ==
    /\ pattern = <<97>>
    /\ Len(records) >= 3
    /\ Len(proxy) = 2
    /\ \E r \in 1..Len(records) : records[r].msg = <<65, 98>>

(***************************************************************************)
(* C5: whenever control is back in the event loop the proxy shows exactly  *)
(* the rows of the current store that match the current pattern, whatever  *)
(* the interleaving of filter changes and appends.                         *)
(***************************************************************************)
C5_LiveFilter ==
    pc = "idle" => ShowsMatching(proxy, records, pattern)

C5_Witness ==
    /\ Returned
    /\ pattern = <<98>>
    /\ storeAtInvoke # <<>>
    /\ Len(invokeCalls) = 1
    /\ Len(invokeCalls[1]) = 2
    /\ Len(proxy) >= 1
    /\ Len(proxy) < Len(records)
    /\ proxy[Len(proxy)] >= Len(storeAtInvoke)

(***************************************************************************)
(* C6: a buffer shorter than 4 bytes, or whose big-endian declared length  *)
(* differs from the number of bytes after the prefix (too few or too       *)
(* many), makes convert_datagram fail on its framing and yield no record.  *)
(***************************************************************************)
DeclaredLength(b) == ((b[1] * 256 + b[2]) * 256 + b[3]) * 256 + b[4]

FramingErrors == {"struct.error", "AssertionError"}

C6_LengthMismatchRejected ==
    (decoded # NotRun /\ (Len(chunk) < 4 \/ DeclaredLength(chunk) + 4 # Len(chunk))) =>
        /\ ~decoded.ok
        /\ decoded.error \in FramingErrors
        /\ decoded.record = NoRecord

C6_Witness ==
    /\ decoded.error = "AssertionError"
    /\ Len(chunk) > 4
    /\ DeclaredLength(chunk) + 4 < Len(chunk)
    /\ pickle_loads(SubSeq(chunk, 5, Len(chunk))).kind = "dict"
    /\ pickle_loads(SubSeq(chunk, 5, 4 + DeclaredLength(chunk))).kind = "dict"

(***************************************************************************)
(* C7: a non-empty append emits stats_changed exactly once, after the      *)
(* records are in the store and before add_records returns; the text       *)
(* carries the row count after the append, which is also what a receiver   *)
(* reads from the model while the signal is delivered.                     *)
(***************************************************************************)
RECURSIVE LeadingNumber(_, _)
\* the number written in decimal at the front of text, after acc
LeadingNumber(text, acc) ==
    IF text # <<>> /\ Head(text) >= 48 /\ Head(text) <= 57
    THEN LeadingNumber(Tail(text), acc * 10 + (Head(text) - 48))
    ELSE acc

StatsSignals(obs) == {i \in 1..Len(obs) : obs[i].signal = "stats_changed"}

C7_NotifyAfterAppend ==
    (Returned /\ Len(invokeCalls) = 1 /\ invokeCalls[1] # <<>>) =>
        /\ StatsSignals(observed) = {Len(observed)}
        /\ \E i \in 1..Len(observed) : observed[i].signal = "rowsInserted"
        /\ observed[Len(observed)].rowCount = Len(records)
        /\ emitted # <<>>
        /\ status_label = emitted[Len(emitted)]
        /\ LeadingNumber(status_label, 0) = Len(records)
        /\ Len(status_label) >= 9
        /\ SubSeq(status_label, Len(status_label) - 7, Len(status_label))
               = <<32, 114, 101, 99, 111, 114, 100, 115>>

C7_Witness ==
    /\ Returned
    /\ Len(invokeCalls) = 1
    /\ Len(invokeCalls[1]) = 2
    /\ Len(emitted) = 2
    /\ LeadingNumber(emitted[1], 0) = 1
    /\ LeadingNumber(emitted[2], 0) = 3

(***************************************************************************)
(* C8: a readDatagrams that finds nothing pending passes an empty batch to *)
(* add_records, which leaves the store as it was and emits no signal; so   *)
(* there are exactly as many stats_changed emissions as non-empty appends. *)
(***************************************************************************)
NonEmptyCalls == {i \in 1..Len(calls) : calls[i] # <<>>}

C8_EmptyBatchNoOp ==
    /\ Len(emitted) = Cardinality(NonEmptyCalls)
    /\ (Returned /\ invokeCalls = << <<>> >>) =>
           /\ records = storeAtInvoke
           /\ Len(records) = Len(storeAtInvoke)
           /\ observed = <<>>

C8_Witness ==
    /\ Returned
    /\ invokeCalls = << <<>> >>
    /\ lastDrained = <<>>
    /\ records # <<>>
    /\ Len(emitted) = 1
    /\ Len(calls) = 2

(***************************************************************************)
(* C9: when a readDatagrams invocation leaves its loop the socket has no   *)
(* pending datagram, everything that was pending has been read in queue    *)
(* order, and the batch handed to add_records holds, position by position, *)
(* the conversion of the datagram read at that position.                   *)
(***************************************************************************)
C9_FullDrain ==
    [][(pc = "draining" /\ pc' = "idle") =>
          /\ socket' = <<>>
          /\ IsPrefix(pendingAtInvoke, lastDrained')
          /\ (invokeCalls' # <<>> =>
                 /\ Len(invokeCalls'[1]) = Len(lastDrained')
                 /\ \A i \in 1..Len(lastDrained') :
                        invokeCalls'[1][i] = convert_datagram(lastDrained'[i]).record)]_vars

C9_Witness ==
    /\ Returned
    /\ Len(pendingAtInvoke) >= 2
    /\ IsPrefix(pendingAtInvoke, lastDrained)
    /\ socket = <<>>
    /\ Len(invokeCalls) = 1
    /\ Len(invokeCalls[1]) >= 2
    /\ invokeCalls[1][1] # invokeCalls[1][2]

(***************************************************************************)
(* C10 as stated: an invocation processes only the datagrams that were     *)
(* pending when it was invoked; arrivals during the drain loop do not      *)
(* extend it.                                                              *)
(***************************************************************************)
C10_BoundedDrain ==
    Returned => lastDrained = pendingAtInvoke

(***************************************************************************)
(* C10 amended: an invocation never waits: inside the loop it can always   *)
(* take its next step; what it has read and what is still pending are      *)
(* together the datagrams pending at invocation followed by those that     *)
(* arrived while the loop ran, and it returns having read all of them.     *)
(***************************************************************************)
C10_DrainUntilEmpty ==
    /\ pc = "draining" =>
           /\ datagrams \o socket = pendingAtInvoke \o arrivedDuring
           /\ ENABLED (ReadOne \/ ConvertAndAdd \/ ConvertRaises)
    /\ Returned => lastDrained = pendingAtInvoke \o arrivedDuring

C10_Witness ==
    /\ Returned
    /\ pendingAtInvoke # <<>>
    /\ arrivedDuring # <<>>
    /\ Len(lastDrained) > Len(pendingAtInvoke)
    /\ records # storeAtInvoke

(***************************************************************************)
(* C11: every datagram that reached the socket is read at most once, in    *)
(* queue order, and never put back; every stored row comes from one read   *)
(* datagram that converted, no read datagram gives two rows, and a         *)
(* datagram whose invocation ended without storing it is never stored      *)
(* later.                                                                  *)
(***************************************************************************)
C11_AtMostOnce ==
    /\ [](/\ readLog \o socket = arrived
          /\ Len(origins) = Len(records)
          /\ \A i, j \in 1..Len(origins) : i < j => origins[i] < origins[j]
          /\ \A i \in 1..Len(origins) :
                 /\ origins[i] \in 1..Len(readLog)
                 /\ convert_datagram(readLog[origins[i]]).ok
                 /\ records[i] = convert_datagram(readLog[origins[i]]).record)
    /\ [][\A k \in 1..Len(readLog) :
              (pc = "idle" /\ k \notin Range(origins)) => k \notin Range(origins')]_vars

C11_Witness ==
    /\ Returned
    /\ Len(arrived) = 3
    /\ ~convert_datagram(arrived[1]).ok
    /\ arrived[2] = arrived[3]
    /\ origins = <<2, 3>>
    /\ socket = <<>>

(***************************************************************************)
(* C12: a record sent as the pickle of its field mapping behind the 4-byte *)
(* big-endian length of that pickle is converted successfully, and the     *)
(* record obtained has the sent created, levelname, name and msg.          *)
(***************************************************************************)
C12_RoundTrip ==
    \A r \in SentRecords :
        (chunk = makePickle(r) /\ decoded # NotRun) =>
            /\ decoded.ok
            /\ decoded.record.created = r.created
            /\ decoded.record.levelname = r.levelname
            /\ decoded.record.name = r.name
            /\ decoded.record.msg = r.msg

C12_Witness ==
    /\ decoded.ok
    /\ \E r \in SentRecords :
           /\ chunk = makePickle(r)
           /\ r.msg = <<65, 98>>
           /\ r.created = 5
           /\ decoded.record = r

(***************************************************************************)
(* C13 as stated: data() called for a row outside [0, rowCount()) or a     *)
(* column outside the four display columns fails with an index error.      *)
(***************************************************************************)
Misuse ==
    /\ lastRead.op = "data"
    /\ \/ lastRead.row < 0
       \/ lastRead.row >= Len(records)
       \/ lastRead.col < 0
       \/ lastRead.col >= 4

C14_OneAppendPerDrain ==
    /\ Len(invokeCalls) <= 1
    /\ (Returned /\ lastDrained # <<>> /\ WellFormedRecords(lastDrained) # <<>>
        /\ Len(WellFormedRecords(lastDrained)) = Len(lastDrained)) =>
           /\ invokeCalls = <<WellFormedRecords(lastDrained)>>
           /\ Cardinality(StatsSignals(observed)) = 1
           /\ Cardinality({i \in 1..Len(observed) : observed[i].signal = "rowsInserted"}) = 1
           /\ LeadingNumber(status_label, 0) = Len(storeAtInvoke) + Len(lastDrained)

C14_Witness ==
    /\ Returned
    /\ Len(lastDrained) = 3
    /\ Len(invokeCalls) = 1
    /\ Len(invokeCalls[1]) = 3
    /\ Len(emitted) = 1
    /\ LeadingNumber(emitted[1], 0) = 3

(***************************************************************************)
(* C15: a step of a reader (data, headerData, rowCount, columnCount, a     *)
(* filter change) leaves the records and their number as they were and     *)
(* emits no stats_changed; a record's created stays the raw timestamp      *)
(* however often it is rendered.  Every step of SpecRead is such a step.   *)
(***************************************************************************)
C15_ReadersDoNotWrite ==
    [][/\ records' = records
       /\ Len(records') = Len(records)
       /\ emitted' = emitted
       /\ status_label' = status_label
       /\ calls' = calls]_vars

C15_Witness ==
    /\ lastRead.op = "data"
    /\ lastRead.col = 0
    /\ lastRead.row = 1
    /\ lastRead.result.kind = "value"
    /\ lastRead.result.text = conv_time(5)
    /\ Len(records) = 2
    /\ records[2].created = 5
    /\ pattern = <<98>>
    /\ proxy = <<1>>

(***************************************************************************)
(* C16: while readDatagrams is still reading the socket the store is as it *)
(* was at invocation and no signal has been delivered; the store is only   *)
(* touched once every drained datagram has been converted, so an           *)
(* invocation in which some conversion fails returns with the store, the   *)
(* proxy's source and the notified total unchanged.                        *)
(***************************************************************************)
SomeFails(dgs) == \E i \in 1..Len(dgs) : ~convert_datagram(dgs[i]).ok

Untouched ==
    /\ records = storeAtInvoke
    /\ observed = <<>>
    /\ invokeCalls = <<>>
    /\ \/ emitted = <<>> /\ status_label = <<>> /\ storeAtInvoke = <<>>
       \/ /\ emitted # <<>>
          /\ status_label = emitted[Len(emitted)]
          /\ LeadingNumber(status_label, 0) = Len(storeAtInvoke)

C16_DecodeBeforeAppend ==
    /\ pc = "draining" => Untouched
    /\ (Returned /\ SomeFails(lastDrained)) => (Untouched /\ lastError # "none")
    /\ invokeCalls # <<>> =>
           /\ pc = "idle"
           /\ AllConverted(lastDrained)
           /\ invokeCalls = <<[i \in 1..Len(lastDrained) |-> converted(lastDrained)[i].record]>>

C16_Witness ==
    /\ Returned
    /\ lastError = "AssertionError"
    /\ Len(lastDrained) = 2
    /\ convert_datagram(lastDrained[1]).ok
    /\ storeAtInvoke # <<>>
    /\ records = storeAtInvoke
    /\ Len(emitted) = 1

(***************************************************************************)
(* C17: whenever no slot is running, either stats_changed was never        *)
(* emitted and the store is empty, or the number in the latest             *)
(* stats_changed text (the one the status label shows) is the store's row  *)
(* count; and the numbers of successive emissions strictly increase.       *)
(***************************************************************************)
NotifiedTotal(i) == LeadingNumber(emitted[i], 0)

C17_TotalNeverStale ==
    /\ pc = "idle" =>
           \/ emitted = <<>> /\ records = <<>> /\ status_label = <<>>
           \/ /\ emitted # <<>>
              /\ NotifiedTotal(Len(emitted)) = rowCount(records)
              /\ status_label = emitted[Len(emitted)]
    /\ \A i, j \in 1..Len(emitted) : i < j => NotifiedTotal(i) < NotifiedTotal(j)

C17_Witness ==
    /\ pc = "idle"
    /\ Len(emitted) = 2
    /\ NotifiedTotal(1) = 1
    /\ NotifiedTotal(2) = 3
    /\ rowCount(records) = 3
    /\ drains = 3

(***************************************************************************)
(* C18: in a behaviour of the fairly scheduled program in which every      *)
(* datagram that arrives is well-formed, the store is at all times the     *)
(* records of a prefix of the arrivals, in arrival order, and the k-th     *)
(* datagram to arrive eventually has its record at row k for good.         *)
(***************************************************************************)
AllWellFormed(dgs) == \A i \in 1..Len(dgs) : convert_datagram(dgs[i]).ok

RecordsOf(dgs) == [i \in 1..Len(dgs) |-> convert_datagram(dgs[i]).record]

InQueueOrder ==
    \E n \in 0..Len(arrived) : records = RecordsOf(SubSeq(arrived, 1, n))

Ingested(k) ==
    /\ Len(records) >= k
    /\ records[k] = convert_datagram(arrived[k]).record

====
